---- MODULE Spec2Model ----
(***************************************************************************)
(* Multi-party Ed25519 aggregated signatures (src/protocols/aggsig/mod.rs). *)
(*                                                                         *)
(* The prime-order group of the curve is modelled by the cyclic group      *)
(* Z_Q of a small prime order Q: the point x*G is represented by x, so     *)
(* point addition is addition mod Q and scalar multiplication is           *)
(* multiplication mod Q.  Sha512 is modelled by a polynomial digest over   *)
(* the chained bytes, reduced mod Q by result_scalar.                      *)
(***************************************************************************)
EXTENDS Integers, Sequences, FiniteSets, TLC

\* ------------------------------------------------------------------ bounds
Primes == <<3, 5, 7, 11, 13>>
\* index of the group order in Primes
OrderIdx == 2
\* largest number of cosigners
MaxParties == 2
\* messages are the one-byte strings <<0>> .. <<MaxMsg>>
MaxMsg == 1
\* blinding factors and adversarial choices range over 0 .. MaxBlind
MaxBlind == 1
\* multiplier of the polynomial digest standing for Sha512
HashKey == 2

Q == Primes[OrderIdx]

\* --------------------------------------------------- group arithmetic (curv)
Scalars == 0 .. (Q - 1)
Points == 0 .. (Q - 1)
ScalarZero == 0
PointZero == 0
Generator == 1

ScalarAdd(a, b) == (a + b) % Q
ScalarMul(a, b) == (a * b) % Q
PointAdd(P, R) == (P + R) % Q
PointMul(P, s) == (P * s) % Q
PointNeg(P) == (Q - P) % Q

\* Point::to_bytes(true): the canonical encoding, one byte here
ToBytes(P) == <<P>>
\* Point::y_coord: P and -P share their y coordinate on an Edwards curve
YCoord(P) == IF PointNeg(P) < P THEN PointNeg(P) ELSE P

\* ------------------------------------------------------------ hashing (sha2)
RECURSIVE Absorb(_, _)
Absorb(acc, bytes) ==
    IF bytes = <<>> THEN acc
    ELSE Absorb((acc * HashKey + Head(bytes) + 1) % (Q * Q), Tail(bytes))

\* Sha512::new().chain(..)...: the digest of the chained bytes
Sha512Digest(bytes) == Absorb(1, bytes)
\* DigestExt::result_scalar: the digest reduced modulo the group order
ResultScalar(bytes) == Sha512Digest(bytes) % Q

RECURSIVE ConcatBytes(_)
ConcatBytes(pks) ==
    IF pks = <<>> THEN <<>> ELSE ToBytes(Head(pks)) \o ConcatBytes(Tail(pks))

\* Signature::k(R, A, msg): the Ed25519 challenge, no domain tag
Signature_k(R, A, msg) == ResultScalar(ToBytes(R) \o ToBytes(A) \o msg)
\* Signature::k_hashed(msg)
Signature_k_hashed(msg) == ResultScalar(msg)

\* ExpandedKeyPair::create_from_private_key(seed): the private scalar is the
\* lower half of the seed's digest, the nonce prefix its upper half
ExpandedKeyPair(seed) ==
    LET h == Sha512Digest(<<seed>>)
        sk == h % Q
    IN  [prefix |-> h \div Q,
         private_key |-> sk,
         public_key |-> PointMul(Generator, sk)]
KeyPairs == {ExpandedKeyPair(seed) : seed \in 0 .. (Q - 1)}
Messages == {<<m>> : m \in 0 .. MaxMsg}

\* HashCommitment::<Sha512>::create_commitment_with_user_defined_randomness
CreateCommitment(value, blind) == Sha512Digest(<<value, blind>>)

\* ------------------------------------------------------------------ results
TagKeyAgg == 1
TagNonce == 2

Sig(R, s) == [kind |-> "Signature", R |-> R, s |-> s]
Panic == [kind |-> "panic", R |-> 0, s |-> 0]
NoSig == [kind |-> "none", R |-> 0, s |-> 0]
NoKeyAgg == [kind |-> "none", apk |-> 0, hash |-> 0]

\* ------------------------------------------------------------------ KeyAgg
\* the for_each closure of key_aggregation_n, from position index on
RECURSIVE KeyAggLoop(_, _, _, _, _)
KeyAggLoop(pks, party_index, index, my_hash, sum) ==
    IF index >= Len(pks) THEN [kind |-> "KeyAgg", apk |-> sum, hash |-> my_hash]
    ELSE LET pk == pks[index + 1]
             hash == ResultScalar(<<TagKeyAgg>> \o ToBytes(pk) \o ConcatBytes(pks))
             a_i == PointMul(pk, hash)
         IN  KeyAggLoop(pks, party_index, index + 1,
                        IF index = party_index THEN hash ELSE my_hash,
                        PointAdd(sum, a_i))

\* a variant that leaves the caller's own weighted key out of the sum
RECURSIVE KeyAggLoopSkipOwn(_, _, _, _, _)
KeyAggLoopSkipOwn(pks, party_index, index, my_hash, sum) ==
    IF index >= Len(pks) THEN [kind |-> "KeyAgg", apk |-> sum, hash |-> my_hash]
    ELSE LET pk == pks[index + 1]
             hash == ResultScalar(<<TagKeyAgg>> \o ToBytes(pk) \o ConcatBytes(pks))
             a_i == PointMul(pk, hash)
         IN  KeyAggLoopSkipOwn(pks, party_index, index + 1,
                        IF index = party_index THEN hash ELSE my_hash,
                        IF index = party_index THEN sum ELSE PointAdd(sum, a_i))

key_aggregation_n_skip_own(pks, party_index) ==
    KeyAggLoopSkipOwn(pks, party_index, 0, ScalarZero, PointZero)

\* a variant that clamps an out-of-range index to the last position
key_aggregation_n_clamped(pks, party_index) ==
    KeyAggLoop(pks,
               IF party_index >= Len(pks) THEN Len(pks) - 1 ELSE party_index,
               0, ScalarZero, PointZero)

key_aggregation_n(pks, party_index) ==
    KeyAggLoop(pks, party_index, 0, ScalarZero, PointZero)

\* ------------------------------------------------------- nonce commit-reveal
\* rnd stands for rng.gen::<[u8; 32]>(), blind for the commitment's own
\* sampled blinding factor
create_ephemeral_key_and_commit_rng(keys, message, rnd, blind) ==
    LET r == ResultScalar(<<TagNonce, keys.prefix>> \o message \o <<rnd>>)
        R == PointMul(Generator, r)
        commitment == CreateCommitment(YCoord(R), blind)
    IN  [ephemeral |-> [kind |-> "EphemeralKey", r |-> r, R |-> R],
         first |-> [kind |-> "SignFirstMsg", commitment |-> commitment],
         second |-> [kind |-> "SignSecondMsg", R |-> R, blind_factor |-> blind]]

NoEphemeral == [kind |-> "none", r |-> 0, R |-> 0]
NoFirst == [kind |-> "none", commitment |-> 0]
NoSecond == [kind |-> "none", R |-> 0, blind_factor |-> 0]
NoPoint == [kind |-> "none", P |-> 0]
PointPanic == [kind |-> "panic", P |-> 0]

RECURSIVE FoldPoints(_, _)
FoldPoints(acc, Rs) ==
    IF Rs = <<>> THEN acc ELSE FoldPoints(PointAdd(acc, Head(Rs)), Tail(Rs))

\* Rs[0] panics on an empty slice
get_R_tot(Rs) ==
    IF Len(Rs) = 0 THEN PointPanic
    ELSE [kind |-> "Point", P |-> FoldPoints(Rs[1], Tail(Rs))]

\* --------------------------------------------------------------- signing
\* a variant that forgets the aggregation coefficient
partial_sign_no_coefficient(r, keys, a, R_tot, agg_pubkey, msg) ==
    LET k == Signature_k(R_tot, agg_pubkey, msg)
        k_mul_sk == ScalarMul(k, keys.private_key)
        s == ScalarAdd(r, k_mul_sk)
    IN  Sig(R_tot, s)

partial_sign(r, keys, a, R_tot, agg_pubkey, msg) ==
    LET k == Signature_k(R_tot, agg_pubkey, msg)
        k_mul_sk == ScalarMul(k, keys.private_key)
        k_mul_sk_mul_ai == ScalarMul(k_mul_sk, a)
        s == ScalarAdd(r, k_mul_sk_mul_ai)
    IN  Sig(R_tot, s)

partial_sign_hashed(message, keys) ==
    LET r == ResultScalar(<<keys.prefix>> \o message)
        R == PointMul(Generator, r)
        k == Signature_k_hashed(message)
        k_mul_sk == ScalarMul(k, keys.private_key)
        s == ScalarAdd(r, k_mul_sk)
    IN  Sig(R, s)

sign_single(message, keys) ==
    LET r == ResultScalar(<<keys.prefix>> \o message)
        R == PointMul(Generator, r)
        k == Signature_k(R, keys.public_key, message)
        k_mul_sk == ScalarMul(k, keys.private_key)
        s == ScalarAdd(r, k_mul_sk)
    IN  Sig(R, s)

\* ------------------------------------------------------------ combination
RECURSIVE FoldScalars(_, _)
FoldScalars(acc, sigs) ==
    IF sigs = <<>> THEN acc
    ELSE FoldScalars(ScalarAdd(acc, Head(sigs).s), Tail(sigs))

\* sigs[1..] panics on an empty slice; assert! panics on a nonce mismatch
add_signature_parts(sigs) ==
    IF Len(sigs) = 0 THEN Panic
    ELSE IF ~(\A i \in 2 .. Len(sigs) : sigs[i].R = sigs[1].R) THEN Panic
    ELSE Sig(sigs[1].R, FoldScalars(sigs[1].s, Tail(sigs)))

hashed_pk(pk) == ResultScalar(<<TagKeyAgg>> \o ToBytes(pk))

\* one round of the loop over sigs.iter().zip(pks): zip stops at the shorter
RECURSIVE HashedLoop(_, _, _, _)
HashedLoop(sigs, pks, agg_sig, agg_R) ==
    IF sigs = <<>> \/ pks = <<>> THEN Sig(agg_R, agg_sig)
    ELSE LET h == hashed_pk(Head(pks))
         IN  HashedLoop(Tail(sigs), Tail(pks),
                        ScalarAdd(agg_sig, ScalarMul(h, Head(sigs).s)),
                        PointAdd(agg_R, PointMul(Head(sigs).R, h)))

add_signature_parts_hashed(sigs, pks) ==
    HashedLoop(sigs, pks, ScalarZero, PointZero)

RECURSIVE PkLoop(_, _)
PkLoop(pks, agg_pk) ==
    IF pks = <<>> THEN agg_pk
    ELSE PkLoop(Tail(pks), PointAdd(agg_pk, PointMul(Head(pks), hashed_pk(Head(pks)))))

\* a variant that sums the keys without their weights
add_pk_parts_unweighted(pks) == FoldPoints(PointZero, pks)

add_pk_parts_hashed(pks) == PkLoop(pks, PointZero)

\* ------------------------------------------------------------ verification
\* a variant that checks against the share's own nonce point
verify_partial_sig_sig_R(sig, message, a, partial_R, partial_public_key, agg_pubkey) ==
    LET k == Signature_k(sig.R, agg_pubkey, message)
        kA == PointMul(PointMul(partial_public_key, k), a)
        R_plus_kA == PointAdd(kA, sig.R)
        sG == PointMul(Generator, sig.s)
    IN  IF R_plus_kA = sG THEN "Ok" ELSE "ProofError"

\* a variant that leaves the coefficient out of the check
verify_partial_sig_no_coefficient(sig, message, a, partial_R, partial_public_key, agg_pubkey) ==
    LET k == Signature_k(sig.R, agg_pubkey, message)
        kA == PointMul(partial_public_key, k)
        R_plus_kA == PointAdd(kA, partial_R)
        sG == PointMul(Generator, sig.s)
    IN  IF R_plus_kA = sG THEN "Ok" ELSE "ProofError"

verify_partial_sig(sig, message, a, partial_R, partial_public_key, agg_pubkey) ==
    LET k == Signature_k(sig.R, agg_pubkey, message)
        A == partial_public_key
        kA == PointMul(PointMul(A, k), a)
        R_plus_kA == PointAdd(kA, partial_R)
        sG == PointMul(Generator, sig.s)
    IN  IF R_plus_kA = sG THEN "Ok" ELSE "ProofError"

\* Signature::verify: ordinary single-key verification
Signature_verify(sig, message, public_key) ==
    LET k == Signature_k(sig.R, public_key, message)
        kA == PointMul(public_key, k)
        R_plus_kA == PointAdd(kA, sig.R)
        sG == PointMul(Generator, sig.s)
    IN  IF R_plus_kA = sG THEN "Ok" ELSE "ProofError"

\* Commitment opening: recompute the commitment from the revealed point
OpensCommitment(first, second) ==
    CreateCommitment(YCoord(second.R), second.blind_factor) = first.commitment

\* ==================================================================== state
VARIABLES
    keys,      \* the cosigners' ExpandedKeyPairs, in the agreed order
    msg,       \* the message being signed
    agg,       \* agg[i]: party i's KeyAgg
    eph,       \* eph[i]: party i's EphemeralKey
    first,     \* first[i]: the SignFirstMsg party i broadcast
    held,      \* held[i]: the SignSecondMsg party i keeps for round 2
    second,    \* second[i]: the SignSecondMsg the peers received from party i
    Rtot,      \* the aggregate nonce point
    shares,    \* shares[i]: the share handed to the combiner for party i
    final,     \* the result of add_signature_parts
    kcall,     \* the last direct call of key_aggregation_n
    scall,     \* the last direct call of partial_sign
    vcall,     \* the last direct call of verify_partial_sig
    hcall      \* the last call of the independent-nonce combiners

vars == <<keys, msg, agg, eph, first, held, second, Rtot, shares, final,
          kcall, scall, vcall, hcall>>

sessionVars == <<keys, msg, agg, eph, first, held, second, Rtot, shares, final>>
callVars == <<kcall, scall, vcall>>

N == Len(keys)
Parties == 1 .. N
PublicKeys == [i \in 1 .. Len(keys) |-> keys[i].public_key]

NoKCall == [kind |-> "none", pks |-> <<>>, party_index |-> 0, result |-> NoKeyAgg]
NoSCall == [kind |-> "none", r |-> 0, keys |-> ExpandedKeyPair(0), a |-> 0,
            R_tot |-> 0, agg_pubkey |-> 0, msg |-> <<>>, coefficient_of |-> "none",
            result |-> NoSig]
NoVCall == [kind |-> "none", message |-> <<>>, a |-> 0, partial_R |-> 0,
            partial_public_key |-> 0, agg_pubkey |-> 0, altered |-> "none",
            result |-> "none"]
NoHCall == [kind |-> "none", nsigs |-> 0, npks |-> 0, sig |-> NoSig, agg_pk |-> 0]

KeyLists(n) == [1 .. n -> KeyPairs]

InitSession(ns, msgs) ==
    /\ \E n \in ns : keys \in KeyLists(n)
    /\ msg \in msgs
    /\ agg = [i \in 1 .. Len(keys) |-> NoKeyAgg]
    /\ eph = [i \in 1 .. Len(keys) |-> NoEphemeral]
    /\ first = [i \in 1 .. Len(keys) |-> NoFirst]
    /\ held = [i \in 1 .. Len(keys) |-> NoSecond]
    /\ second = [i \in 1 .. Len(keys) |-> NoSecond]
    /\ Rtot = NoPoint
    /\ shares = [i \in 1 .. Len(keys) |-> NoSig]
    /\ final = NoSig
    /\ kcall = NoKCall
    /\ scall = NoSCall
    /\ vcall = NoVCall
    /\ hcall = NoHCall

Init == InitSession(1 .. MaxParties, Messages)

\* ------------------------------------------------ the interactive session
\* party i aggregates the agreed key list with its own (0-based) index
KeyAggregation(i) ==
    /\ agg[i].kind = "none"
    /\ \A j \in 1 .. (i - 1) : agg[j].kind # "none"
    /\ agg' = [agg EXCEPT ![i] = key_aggregation_n(PublicKeys, i - 1)]
    /\ UNCHANGED <<keys, msg, eph, first, held, second, Rtot, shares, final, callVars, hcall>>

\* round 1: party i draws its nonce and broadcasts the commitment
CommitWith(i, rnds, blinds) ==
    /\ \A j \in Parties : agg[j].kind # "none"
    /\ eph[i].kind = "none"
    /\ \A j \in 1 .. (i - 1) : eph[j].kind # "none"
    /\ \E rnd \in rnds, blind \in blinds :
         LET c == create_ephemeral_key_and_commit_rng(keys[i], msg, rnd, blind)
         IN  /\ eph' = [eph EXCEPT ![i] = c.ephemeral]
             /\ first' = [first EXCEPT ![i] = c.first]
             /\ held' = [held EXCEPT ![i] = c.second]
    /\ UNCHANGED <<keys, msg, agg, second, Rtot, shares, final, callVars, hcall>>

\* the honest session: the blinding factor plays no part in what is signed
Commit(i) == CommitWith(i, 0 .. MaxBlind, {0})

\* round 2: once every commitment is in, party i reveals
Reveal(i) ==
    /\ \A j \in Parties : first[j].kind # "none"
    /\ second[i].kind = "none"
    /\ \A j \in 1 .. (i - 1) : second[j].kind # "none"
    /\ second' = [second EXCEPT ![i] = held[i]]
    /\ UNCHANGED <<keys, msg, agg, eph, first, held, Rtot, shares, final, callVars, hcall>>

\* the revealed points are summed; the source performs no check here
AggregateNonces ==
    /\ \A j \in Parties : second[j].kind # "none"
    /\ Rtot.kind = "none"
    /\ Rtot' = get_R_tot([j \in 1 .. N |-> second[j].R])
    /\ UNCHANGED <<keys, msg, agg, eph, first, held, second, shares, final, callVars, hcall>>

PartialSign(i) ==
    /\ Rtot.kind = "Point"
    /\ shares[i].kind = "none"
    /\ \A j \in 1 .. (i - 1) : shares[j].kind # "none"
    /\ shares' = [shares EXCEPT ![i] =
                    partial_sign(eph[i].r, keys[i], agg[i].hash, Rtot.P, agg[i].apk, msg)]
    /\ UNCHANGED <<keys, msg, agg, eph, first, held, second, Rtot, final, callVars, hcall>>

Combine ==
    /\ \A j \in Parties : shares[j].kind # "none"
    /\ final.kind = "none"
    /\ final' = add_signature_parts(shares)
    /\ UNCHANGED <<keys, msg, agg, eph, first, held, second, Rtot, shares, callVars, hcall>>

Next ==
    \/ \E i \in Parties : KeyAggregation(i)
    \/ \E i \in Parties : Commit(i)
    \/ \E i \in Parties : Reveal(i)
    \/ AggregateNonces
    \/ \E i \in Parties : PartialSign(i)
    \/ Combine

Spec == Init /\ [][Next]_vars

\* ---------------------------------- the session with a dishonest last party
\* The last cosigner controls what it sends: its SignSecondMsg need not be
\* the one it committed to, and the share it hands to the combiner need not
\* carry the aggregate nonce point.
NetKeyPairs == {ExpandedKeyPair(seed) : seed \in 0 .. MaxBlind}

InitNet ==
    /\ InitSession(1 .. MaxParties, {<<0>>})
    /\ \A i \in 1 .. Len(keys) : keys[i] \in NetKeyPairs

CommitNet(i) == CommitWith(i, {0}, 0 .. MaxBlind)

DishonestReveal ==
    /\ N > 1
    /\ \A j \in Parties : first[j].kind # "none"
    /\ second[N].kind = "none"
    /\ \A j \in 1 .. (N - 1) : second[j].kind # "none"
    /\ \E R \in Points, blind \in 0 .. MaxBlind :
         /\ [kind |-> "SignSecondMsg", R |-> R, blind_factor |-> blind] # held[N]
         /\ second' = [second EXCEPT ![N] =
                         [kind |-> "SignSecondMsg", R |-> R, blind_factor |-> blind]]
    /\ UNCHANGED <<keys, msg, agg, eph, first, held, Rtot, shares, final, callVars, hcall>>

DishonestShare ==
    /\ N > 1
    /\ Rtot.kind = "Point"
    /\ shares[N].kind = "none"
    /\ \A j \in 1 .. (N - 1) : shares[j].kind # "none"
    /\ \E R \in Points \ {Rtot.P} :
         shares' = [shares EXCEPT ![N] =
                      partial_sign(eph[N].r, keys[N], agg[N].hash, R, agg[N].apk, msg)]
    /\ UNCHANGED <<keys, msg, agg, eph, first, held, second, Rtot, final, callVars, hcall>>

NextNet ==
    \/ \E i \in Parties : KeyAggregation(i)
    \/ \E i \in Parties : CommitNet(i)
    \/ \E i \in Parties : Reveal(i)
    \/ DishonestReveal
    \/ AggregateNonces
    \/ \E i \in Parties : PartialSign(i)
    \/ DishonestShare
    \/ Combine

SpecNet == InitNet /\ [][NextNet]_vars

\* ------------------------------------------ independent-nonce combination
\* Every cosigner signs the message on its own with partial_sign_hashed; the
\* last one may instead send any signature.  The combiner is then called
\* with the first nsigs shares and the first npks public keys.
SignHashed(i) ==
    /\ shares[i].kind = "none"
    /\ \A j \in 1 .. (i - 1) : shares[j].kind # "none"
    /\ shares' = [shares EXCEPT ![i] = partial_sign_hashed(msg, keys[i])]
    /\ UNCHANGED <<keys, msg, agg, eph, first, held, second, Rtot, final, callVars, hcall>>

ForgedShare ==
    /\ shares[N].kind = "none"
    /\ \A j \in 1 .. (N - 1) : shares[j].kind # "none"
    /\ \E R \in Points, s \in Scalars :
         /\ Sig(R, s) # partial_sign_hashed(msg, keys[N])
         /\ shares' = [shares EXCEPT ![N] = Sig(R, s)]
    /\ UNCHANGED <<keys, msg, agg, eph, first, held, second, Rtot, final, callVars, hcall>>

CombineHashed ==
    /\ \A j \in Parties : shares[j].kind # "none"
    /\ hcall.kind = "none"
    /\ \E nsigs \in 0 .. N, npks \in 0 .. N :
         hcall' = [kind |-> "hashed", nsigs |-> nsigs, npks |-> npks,
                   sig |-> add_signature_parts_hashed(SubSeq(shares, 1, nsigs),
                                                      SubSeq(PublicKeys, 1, npks)),
                   agg_pk |-> add_pk_parts_hashed(SubSeq(PublicKeys, 1, npks))]
    /\ UNCHANGED <<sessionVars, callVars>>

NextHashed ==
    \/ \E i \in Parties : SignHashed(i)
    \/ ForgedShare
    \/ CombineHashed

SpecHashed == Init /\ [][NextHashed]_vars

\* ------------------------------------- direct calls of the public functions
\* No session is running: a caller invokes the public functions with
\* arguments of its own choosing.
InitCalls == InitSession({0}, {<<>>})

PointLists == UNION {[1 .. n -> Points] : n \in 0 .. MaxParties}

CallKeyAggregation ==
    /\ kcall.kind = "none" /\ scall.kind = "none"
    /\ \E list \in PointLists, party_index \in 0 .. MaxParties :
         kcall' = [kind |-> "KeyAgg", pks |-> list, party_index |-> party_index,
                   result |-> key_aggregation_n(list, party_index)]
    /\ scall' = NoSCall
    /\ vcall' = NoVCall
    /\ UNCHANGED <<sessionVars, hcall>>

SignCall(r, kp, a, R_tot, agg_pubkey, m, source) ==
    [kind |-> "partial_sign", r |-> r, keys |-> kp, a |-> a, R_tot |-> R_tot,
     agg_pubkey |-> agg_pubkey, msg |-> m, coefficient_of |-> source,
     result |-> partial_sign(r, kp, a, R_tot, agg_pubkey, m)]

\* partial_sign with the coefficient and key that key_aggregation_n returned
CallPartialSignAggregated ==
    /\ kcall.kind = "KeyAgg" /\ scall.kind = "none"
    /\ \E r \in Scalars, kp \in KeyPairs, R_tot \in Points, m \in Messages :
         scall' = SignCall(r, kp, kcall.result.hash, R_tot, kcall.result.apk, m,
                           IF kcall.party_index >= Len(kcall.pks)
                           THEN "out_of_range" ELSE "in_range")
    /\ kcall' = NoKCall
    /\ vcall' = NoVCall
    /\ UNCHANGED <<sessionVars, hcall>>

\* partial_sign with arbitrary arguments
CallPartialSign ==
    /\ kcall.kind = "none" /\ scall.kind = "none"
    /\ \E r \in Scalars, kp \in KeyPairs, a \in Scalars, R_tot \in Points,
          agg_pubkey \in Points, m \in Messages :
         scall' = SignCall(r, kp, a, R_tot, agg_pubkey, m, "caller")
    /\ kcall' = NoKCall
    /\ vcall' = NoVCall
    /\ UNCHANGED <<sessionVars, hcall>>

VerifyCall(sig, message, a, partial_R, partial_public_key, agg_pubkey, altered) ==
    [kind |-> "verify_partial_sig", message |-> message, a |-> a,
     partial_R |-> partial_R, partial_public_key |-> partial_public_key,
     agg_pubkey |-> agg_pubkey, altered |-> altered,
     result |-> verify_partial_sig(sig, message, a, partial_R, partial_public_key,
                                   agg_pubkey)]

\* the arguments the share of scall was built from
HonestR == PointMul(Generator, scall.r)
HonestPk == scall.keys.public_key

\* verify_partial_sig on the share of scall with the arguments it was built from
CallVerifyPartialSig ==
    /\ scall.kind = "partial_sign" /\ vcall.kind = "none"
    /\ vcall' = VerifyCall(scall.result, scall.msg, scall.a, HonestR, HonestPk,
                           scall.agg_pubkey, "none")
    /\ UNCHANGED <<sessionVars, kcall, scall, hcall>>

\* the same call with exactly one of message, partial_R, a, partial_public_key
\* replaced by a different value
CallVerifyAltered ==
    /\ scall.kind = "partial_sign" /\ vcall.kind = "none"
    /\ \/ \E m \in Messages \ {scall.msg} :
            vcall' = VerifyCall(scall.result, m, scall.a, HonestR, HonestPk,
                                scall.agg_pubkey, "message")
       \/ \E R \in Points \ {HonestR} :
            vcall' = VerifyCall(scall.result, scall.msg, scall.a, R, HonestPk,
                                scall.agg_pubkey, "partial_R")
       \/ \E a \in Scalars \ {scall.a} :
            vcall' = VerifyCall(scall.result, scall.msg, a, HonestR, HonestPk,
                                scall.agg_pubkey, "a")
       \/ \E pk \in Points \ {HonestPk} :
            vcall' = VerifyCall(scall.result, scall.msg, scall.a, HonestR, pk,
                                scall.agg_pubkey, "partial_public_key")
    /\ UNCHANGED <<sessionVars, kcall, scall, hcall>>

NextCalls ==
    \/ CallKeyAggregation
    \/ CallPartialSignAggregated
    \/ CallPartialSign
    \/ CallVerifyPartialSig
    \/ CallVerifyAltered

SpecCalls == InitCalls /\ [][NextCalls]_vars

\* ============================================================ properties
\* sum over the positions j .. n of h_j * pk_j, with
\* h_j = HashToScalar(tag || pk_j || pk_1 || ... || pk_n)
KeySetCoefficient(list, j) ==
    ResultScalar(<<TagKeyAgg>> \o ToBytes(list[j]) \o ConcatBytes(list))

RECURSIVE WeightedKeySum(_, _)
WeightedKeySum(list, j) ==
    IF j > Len(list) THEN PointZero
    ELSE PointAdd(PointMul(list[j], KeySetCoefficient(list, j)),
                  WeightedKeySum(list, j + 1))

RECURSIVE NonceSum(_)
NonceSum(j) ==
    IF j > N THEN PointZero ELSE PointAdd(PointMul(Generator, eph[j].r), NonceSum(j + 1))

\* C1: in a run where every party aggregates the same ordered key list with
\* its own index, R_tot is the sum of the parties' nonce points and every
\* party signs with partial_sign, the signature that add_signature_parts
\* returns satisfies s*G = R + k(R, apk, m)*apk, and its R is R_tot.
C1_FinalSignatureVerifies ==
    final.kind # "none" =>
        LET apk == agg[1].apk
        IN  /\ final.kind = "Signature"
            /\ Rtot.P = NonceSum(1)
            /\ final.R = Rtot.P
            /\ PointMul(Generator, final.s)
                 = PointAdd(final.R, PointMul(apk, Signature_k(final.R, apk, msg)))

C1_Witness ==
    /\ final.kind = "Signature"
    /\ N = MaxParties
    /\ \A i \in Parties : keys[i].private_key # 0 /\ eph[i].r # 0 /\ agg[i].hash > 1
    /\ \A i, j \in Parties : i # j => keys[i] # keys[j]
    /\ Signature_k(final.R, agg[1].apk, msg) # 0

\* C5: key_aggregation_n(pks, i) returns apk = sum_j h_j*pk_j with
\* h_j = HashToScalar(tag || pk_j || pk_0 || ... || pk_{n-1}) and hash = h_i;
\* every party, whatever its index, holds the same apk.
C5_KeyAggregationDeterministic ==
    \A i \in Parties :
        agg[i].kind # "none" =>
            /\ agg[i].apk = WeightedKeySum(PublicKeys, 1)
            /\ agg[i].hash = KeySetCoefficient(PublicKeys, i)
            /\ \A j \in Parties : agg[j].kind # "none" => agg[j].apk = agg[i].apk

C5_Witness ==
    /\ N = MaxParties
    /\ \A i \in Parties : agg[i].kind = "KeyAgg" /\ keys[i].public_key # PointZero
    /\ \E i, j \in Parties : agg[i].hash # agg[j].hash
    /\ agg[1].apk # PointZero

\* ----------------------------------------------------------------- C2, C3
SharesMismatch == \E i \in Parties : shares[i].R # shares[1].R

\* C2: add_signature_parts, given shares whose nonce points differ, returns
\* an explicit recoverable error value: no abort of the process, no Signature.
C2_MismatchIsRecoverableError ==
    (final.kind # "none" /\ SharesMismatch) => final.kind = "Err"

\* what add_signature_parts does on such a list: its assert! panics
MismatchPanics ==
    (final.kind # "none" /\ SharesMismatch) => final.kind = "panic"

\* C3: every point summed into R_tot opens its sender's commitment; a
\* SignSecondMsg that does not open it is never summed into R_tot, and no
\* share is produced from it.
C3_OnlyOpenedPointsAreSummed ==
    (Rtot.kind # "none" \/ \E i \in Parties : shares[i].kind # "none") =>
        \A i \in Parties : OpensCommitment(first[i], second[i])

\* ------------------------------------------------------------- C4, C9, C10
\* the challenge the share of scall was built with
SignK == Signature_k(scall.R_tot, scall.agg_pubkey, scall.msg)
HonestVerdict ==
    verify_partial_sig(scall.result, scall.msg, scall.a, HonestR, HonestPk,
                       scall.agg_pubkey)

\* C4: for a share verify_partial_sig accepts, replacing exactly one of
\* message, partial_R, a, partial_public_key by a different value makes
\* verify_partial_sig return Err(ProofError).
C4_AnyAlterationRejected ==
    (vcall.kind # "none" /\ vcall.altered # "none" /\ HonestVerdict = "Ok") =>
        vcall.result = "ProofError"

\* C4, amended: replacing partial_R is always rejected; replacing a is
\* rejected exactly when k # 0 and the public key is not the identity;
\* replacing the public key exactly when a # 0 and k # 0; replacing the
\* message exactly when the recomputed challenge differs, a # 0 and the
\* public key is not the identity.
C4_AlterationRejectedWhenItCounts ==
    (vcall.kind # "none" /\ vcall.altered # "none" /\ HonestVerdict = "Ok") =>
        LET rejected == vcall.result = "ProofError"
            k2 == Signature_k(scall.result.R, scall.agg_pubkey, vcall.message)
        IN  /\ vcall.altered = "partial_R" => rejected
            /\ vcall.altered = "a" =>
                 (rejected <=> (SignK # 0 /\ HonestPk # PointZero))
            /\ vcall.altered = "partial_public_key" =>
                 (rejected <=> (SignK # 0 /\ scall.a # 0))
            /\ vcall.altered = "message" =>
                 (rejected <=> (k2 # SignK /\ scall.a # 0 /\ HonestPk # PointZero))

C4_Witness ==
    /\ vcall.kind # "none" /\ vcall.altered = "a"
    /\ HonestVerdict = "Ok"
    /\ vcall.result = "ProofError"
    /\ scall.R_tot # HonestR
    /\ scall.a # 0 /\ SignK # 0 /\ HonestPk # PointZero

\* C9: verify_partial_sig accepts every share partial_sign built, checked
\* with the arguments it was built from, also when R_tot differs from r*G.
C9_HonestShareAccepted ==
    (vcall.kind # "none" /\ vcall.altered = "none") => vcall.result = "Ok"

C9_Witness ==
    /\ vcall.kind # "none" /\ vcall.altered = "none"
    /\ vcall.result = "Ok"
    /\ scall.R_tot # HonestR
    /\ scall.a # 0 /\ SignK # 0 /\ scall.keys.private_key # 0 /\ scall.r # 0

\* C10: key_aggregation_n with party_index >= pks.len() (or an empty pks)
\* signals no error: the apk is that of any in-range index (the identity for
\* an empty pks), the hash is the zero scalar, and a share partial_sign
\* builds with that coefficient has s = r.
C10_OutOfRangeIndexGivesZeroCoefficient ==
    /\ (kcall.kind # "none" /\ kcall.party_index >= Len(kcall.pks)) =>
          /\ kcall.result.kind = "KeyAgg"
          /\ kcall.result.hash = ScalarZero
          /\ kcall.result.apk = WeightedKeySum(kcall.pks, 1)
          /\ kcall.pks = <<>> => kcall.result.apk = PointZero
    /\ scall.coefficient_of = "out_of_range" =>
          /\ scall.a = ScalarZero
          /\ scall.result.s = scall.r

C10_Witness ==
    /\ scall.coefficient_of = "out_of_range"
    /\ scall.agg_pubkey # PointZero
    /\ SignK # 0 /\ scall.keys.private_key # 0 /\ scall.r # 0
    /\ scall.result.s = scall.r

\* ----------------------------------------------------------------- C6, C7
\* C6: add_signature_parts_hashed called with lists of different lengths
\* returns no Signature.
C6_LengthMismatchRejected ==
    (hcall.kind # "none" /\ hcall.nsigs # hcall.npks) => hcall.sig.kind # "Signature"

PerKeyWeight(pk) == ResultScalar(<<TagKeyAgg>> \o ToBytes(pk))

RECURSIVE WeightedSum(_, _, _)
\* sum over i in 1 .. n of weight(pk_i) * term[i]
WeightedSum(term, n, modulus) ==
    IF n = 0 THEN 0
    ELSE (WeightedSum(term, n - 1, modulus)
            + PerKeyWeight(PublicKeys[n]) * term[n]) % modulus

\* C7: for lists of equal length n, add_signature_parts_hashed returns
\* (sum h_i*R_i, sum h_i*s_i) and add_pk_parts_hashed returns sum h_i*pk_i,
\* with h_i = hashed_pk(pk_i); if every share satisfies s_i*G = R_i + k*pk_i
\* for one k, then agg_s*G = agg_R + k*agg_pk.
C7_HashedCombinationIsLinear ==
    (hcall.kind # "none" /\ hcall.nsigs = hcall.npks) =>
        LET n == hcall.nsigs
        IN  /\ hcall.sig.R = WeightedSum([i \in 1 .. n |-> shares[i].R], n, Q)
            /\ hcall.sig.s = WeightedSum([i \in 1 .. n |-> shares[i].s], n, Q)
            /\ hcall.agg_pk = WeightedSum([i \in 1 .. n |-> PublicKeys[i]], n, Q)
            /\ \A k \in Scalars :
                 (\A i \in 1 .. n :
                    PointMul(Generator, shares[i].s)
                      = PointAdd(shares[i].R, PointMul(PublicKeys[i], k)))
                 => PointMul(Generator, hcall.sig.s)
                      = PointAdd(hcall.sig.R, PointMul(hcall.agg_pk, k))

C7_Witness ==
    /\ hcall.kind # "none" /\ hcall.nsigs = N /\ hcall.npks = N /\ N = MaxParties
    /\ \A i \in Parties : keys[i].private_key # 0 /\ hashed_pk(PublicKeys[i]) > 1
    /\ \A i, j \in Parties : i # j => (keys[i] # keys[j] /\ shares[i].R # shares[j].R)
    /\ Signature_k_hashed(msg) # 0
    /\ \A i \in Parties :
         PointMul(Generator, shares[i].s)
           = PointAdd(shares[i].R, PointMul(PublicKeys[i], Signature_k_hashed(msg)))
    /\ hcall.agg_pk # PointZero

====
